---- MODULE Spec2Model ----
(***************************************************************************)
(* Continuum client (client/src/App.jsx): the App component's state, the   *)
(* user intents its views offer, and its asynchronous handlers handleAuth, *)
(* handleFetch, handleSave and handleExport.  A handler runs to its next   *)
(* await in one step; a pending handler is resumed by the response (or     *)
(* the fault) of the request it awaits.  Handlers never share locals, but  *)
(* all of them write the same component state.                             *)
(***************************************************************************)
EXTENDS Integers, Sequences, FiniteSets, TLC

\* ---------------------------------------------------------------- bounds
MaxOverlaps == 1      \* invocations started while another one awaits its answer, in one execution
MaxTracks == 2        \* longest raw track list the source backend answers

\* ------------------------------------------------------------- constants
DefaultMixLength == 45
FullProgress == 100

VARIABLES
    step,        \* 'auth' | 'source' | 'processing' | 'results'
    authMode,    \* 'client' | 'user'
    sourceMode,  \* 'playlist' | 'recs'
    inputValue,
    mixLength,
    tracks,
    progress,
    status,
    resultMix,
    savedUrl,
    error,
    auths,       \* pending handleAuth invocations
    runs,        \* pending handleFetch invocations
    saves,       \* pending handleSave invocations
    inflight,    \* requests issued and not yet answered
    overlaps,    \* invocations started so far while another one was pending
    last         \* the step taken last: who acted, on what answer, with what effect

session == <<step, authMode, sourceMode, inputValue, mixLength>>
pipeline == <<tracks, progress, status>>
outputs == <<resultMix, savedUrl, error>>
handlers == <<auths, runs, saves, inflight, overlaps>>
vars == <<session, pipeline, outputs, handlers, last>>

\* ------------------------------------------------------------ data
NoUrl == <<>>
User == <<"user", 0>>

\* What a rejected fetch or an unparsable body carries as e.message.
FaultMsg == "Failed to fetch"
SourceErrors == {"playlist not found"}
\* message / error fields of a refusing answer; "" is an answer without one
SolveMessages == {"no feasible mix", ""}
TokenErrors == {"invalid code", ""}
SaveErrors == {"not authorized"}
MixLengthInputs == {"30"}
PastedUrl == "http://localhost/callback?code=abc"

ArtistOf(k) == IF k = 1 THEN "A" ELSE IF k = 2 THEN "B" ELSE "C"
NameOf(k) == IF k = 1 THEN "X" ELSE IF k = 2 THEN "Y" ELSE "Z"

RawTrack(k) ==
    [id |-> k, name |-> NameOf(k), artist |-> ArtistOf(k), uri |-> <<"spotify:track", k>>]

\* The raw track lists /api/playlist and /api/recommendations may answer.
RawLists == { [k \in 1..n |-> RawTrack(k)] : n \in 0..MaxTracks }

\* The enriched form /api/features answers for a track it knows.
Enriched(t) ==
    [id |-> t.id, name |-> t.name, artist |-> t.artist, uri |-> t.uri,
     key |-> t.id % 12, mode |-> t.id % 2, BPM |-> 120 + t.id]

\* An entry of last: the handler (or the user) that acted, the answer it was
\* resumed with, and what it handed out of the component.
Event(op, actor, outcome, msg) ==
    [op |-> op, actor |-> actor, outcome |-> outcome, msg |-> msg, data |-> <<>>]
EventWith(op, actor, outcome, data) ==
    [op |-> op, actor |-> actor, outcome |-> outcome, msg |-> "", data |-> data]

Request(actor, op, payload) == [actor |-> actor, op |-> op, payload |-> payload]

Pending(actor) == { c \in inflight : c.actor = actor }

\* An invocation that comes to await an answer.  Nothing in the component keeps
\* it from starting while others are pending; the executions explored hold at
\* most MaxOverlaps such starts.
MayStart == inflight = {} \/ overlaps < MaxOverlaps
Started == IF inflight = {} THEN overlaps ELSE overlaps + 1

\* The name of a new invocation: the least one no pending invocation in hs has.
NewId(hs) == CHOOSE k \in 1..(Cardinality(hs) + 1) :
                /\ \A h \in hs : h.id # k
                /\ \A j \in 1..(k - 1) : \E h \in hs : h.id = j

Init ==
    /\ step = "auth"
    /\ authMode = "client"
    /\ sourceMode = "playlist"
    /\ inputValue = ""
    /\ mixLength = [kind |-> "number", v |-> DefaultMixLength]
    /\ tracks = <<>>
    /\ progress = [num |-> 0, den |-> 1]
    /\ status = [text |-> "", i |-> 0, n |-> 0, name |-> ""]
    /\ resultMix = <<>>
    /\ savedUrl = NoUrl
    /\ error = ""
    /\ auths = {}
    /\ runs = {}
    /\ saves = {}
    /\ inflight = {}
    /\ overlaps = 0
    /\ last = Event("init", User, "", "")

\* ------------------------------------------------------------ auth stage
SetAuthMode_AnyStage(m) ==
    /\ authMode' = m
    /\ last' = Event("edit", User, "", "")
    /\ UNCHANGED <<step, sourceMode, inputValue, mixLength>>
    /\ UNCHANGED <<pipeline, outputs, handlers>>

\* The radio buttons of the auth view.
SetAuthMode(m) ==
    /\ step = "auth"
    /\ authMode' = m
    /\ last' = Event("edit", User, "", "")
    /\ UNCHANGED <<step, sourceMode, inputValue, mixLength>>
    /\ UNCHANGED <<pipeline, outputs, handlers>>

\* handleAuth, authMode === 'client'
AuthClient ==
    /\ step' = "source"
    /\ last' = Event("handleAuth", User, "client", "")
    /\ UNCHANGED <<authMode, sourceMode, inputValue, mixLength>>
    /\ UNCHANGED <<pipeline, outputs, handlers>>

\* handleAuth, the user flow up to its first await: GET /api/auth/url
AuthUser ==
    /\ MayStart
    /\ overlaps' = Started
    /\ auths' = auths \cup {[id |-> NewId(auths), pc |-> "url"]}
    /\ inflight' = inflight \cup {Request(<<"auth", NewId(auths)>>, "getAuthUrl", <<>>)}
    /\ last' = Event("handleAuth", User, "user", "")
    /\ UNCHANGED <<runs, saves>>
    /\ UNCHANGED <<session, pipeline, outputs>>

HandleAuth_UserFlowOnly ==
    /\ step = "auth"
    /\ AuthUser

\* The Continue button of the auth view.
HandleAuth ==
    /\ step = "auth"
    /\ IF authMode = "client" THEN AuthClient ELSE AuthUser

\* catch (e) { setError(e.message) } of handleAuth
AuthCatch(h, msg) ==
    /\ error' = msg
    /\ auths' = auths \ {h}
    /\ inflight' = inflight \ Pending(<<"auth", h.id>>)
    /\ last' = Event("authEnd", <<"auth", h.id>>, "fault", msg)
    /\ UNCHANGED <<resultMix, savedUrl, runs, saves, overlaps>>
    /\ UNCHANGED <<session, pipeline>>

\* handleAuth resumed by the answer of /api/auth/url: window.open, the blocking
\* prompt, and (when something was pasted) POST /api/auth/token.
AuthUrlResponse(h) ==
    /\ h \in auths
    /\ h.pc = "url"
    /\ \/ AuthCatch(h, FaultMsg)
       \/ \E pasted \in BOOLEAN :
            IF pasted
            THEN /\ auths' = (auths \ {h}) \cup {[h EXCEPT !.pc = "token"]}
                 /\ inflight' = (inflight \ Pending(<<"auth", h.id>>))
                        \cup {Request(<<"auth", h.id>>, "exchangeToken", PastedUrl)}
                 /\ last' = Event("authPrompt", <<"auth", h.id>>, "pasted", "")
                 /\ UNCHANGED <<runs, saves, overlaps>>
                 /\ UNCHANGED <<session, pipeline, outputs>>
            ELSE /\ auths' = auths \ {h}
                 /\ inflight' = inflight \ Pending(<<"auth", h.id>>)
                 /\ last' = Event("authEnd", <<"auth", h.id>>, "cancelled", "")
                 /\ UNCHANGED <<runs, saves, overlaps>>
                 /\ UNCHANGED <<session, pipeline, outputs>>

AuthFailedMessage_NoFallback(e) == e

\* tokenData.error || "Auth Failed"
AuthFailedMessage(e) == IF e # "" THEN e ELSE "Auth Failed"

\* handleAuth resumed by the answer of /api/auth/token
AuthTokenResponse(h) ==
    /\ h \in auths
    /\ h.pc = "token"
    /\ \/ AuthCatch(h, FaultMsg)
       \/ /\ step' = "source"
          /\ auths' = auths \ {h}
          /\ inflight' = inflight \ Pending(<<"auth", h.id>>)
          /\ last' = Event("authEnd", <<"auth", h.id>>, "success", "")
          /\ UNCHANGED <<authMode, sourceMode, inputValue, mixLength>>
          /\ UNCHANGED <<runs, saves, overlaps>>
          /\ UNCHANGED <<pipeline, outputs>>
       \/ \E e \in TokenErrors :
            /\ error' = AuthFailedMessage(e)
            /\ auths' = auths \ {h}
            /\ inflight' = inflight \ Pending(<<"auth", h.id>>)
            /\ last' = Event("authEnd", <<"auth", h.id>>, "refused", e)
            /\ UNCHANGED <<resultMix, savedUrl, runs, saves, overlaps>>
            /\ UNCHANGED <<session, pipeline>>

\* ---------------------------------------------------------- source stage
\* The select and the number input of the source view.  The text input only
\* feeds inputValue, which is sent on unread; it is left as rendered first.
SetSourceMode(m) ==
    /\ step = "source"
    /\ sourceMode' = m
    /\ last' = Event("edit", User, "", "")
    /\ UNCHANGED <<step, authMode, inputValue, mixLength>>
    /\ UNCHANGED <<pipeline, outputs, handlers>>

\* setMixLength(e.target.value): the value of an input element is a string
SetMixLength(v) ==
    /\ step = "source"
    /\ mixLength' = [kind |-> "string", v |-> v]
    /\ last' = Event("edit", User, "", "")
    /\ UNCHANGED <<step, authMode, sourceMode, inputValue>>
    /\ UNCHANGED <<pipeline, outputs, handlers>>

\* endpoint and payload of the source request
SourceRequest ==
    IF sourceMode = "playlist"
    THEN [endpoint |-> "/api/playlist", key |-> "id", value |-> inputValue, mode |-> authMode]
    ELSE [endpoint |-> "/api/recommendations", key |-> "seed", value |-> inputValue, mode |-> authMode]

\* handleFetch up to its first await, from the Generate Mix button of the
\* source view.  mixLength is the value of the render the click happened in.
HandleFetch ==
    /\ step = "source"
    /\ MayStart
    /\ overlaps' = Started
    /\ step' = "processing"
    /\ error' = ""
    /\ status' = [text |-> "Fetching tracks...", i |-> 0, n |-> 0, name |-> ""]
    /\ runs' = runs \cup {[id |-> NewId(runs), pc |-> "source", rawTracks |-> <<>>, i |-> 0,
                           processed |-> <<>>, mixLength |-> mixLength,
                           answers |-> <<>>, lookups |-> 0, solves |-> 0]}
    /\ inflight' = inflight \cup {Request(<<"run", NewId(runs)>>, "fetchSource", SourceRequest)}
    /\ last' = Event("handleFetch", User, "", "")
    /\ UNCHANGED <<authMode, sourceMode, inputValue, mixLength>>
    /\ UNCHANGED <<tracks, progress, resultMix, savedUrl>>
    /\ UNCHANGED <<auths, saves>>

RECURSIVE GCD(_, _)
GCD(a, b) == IF b = 0 THEN a ELSE GCD(b, a % b)

Percent_AfterTrack(i, n) ==
    LET g == GCD((i + 1) * 100, n)
    IN  [num |-> ((i + 1) * 100) \div g, den |-> n \div g]

\* (i / n) * 100, kept exact as a fraction in lowest terms
Percent(i, n) ==
    LET g == GCD(i * 100, n)
    IN  [num |-> (i * 100) \div g, den |-> n \div g]

RunCatch_KeepsPartial(r, outcome, msg) ==
    /\ error' = msg
    /\ step' = "source"
    /\ tracks' = r.processed
    /\ runs' = runs \ {r}
    /\ inflight' = inflight \ Pending(<<"run", r.id>>)
    /\ last' = Event("runEnd", <<"run", r.id>>, outcome, msg)
    /\ UNCHANGED <<authMode, sourceMode, inputValue, mixLength>>
    /\ UNCHANGED <<resultMix, savedUrl, auths, saves, overlaps>>
    /\ UNCHANGED <<progress, status>>

\* catch (e) { setError(e.message); setStep('source') } of handleFetch
RunCatch(r, outcome, msg) ==
    /\ error' = msg
    /\ step' = "source"
    /\ runs' = runs \ {r}
    /\ inflight' = inflight \ Pending(<<"run", r.id>>)
    /\ last' = Event("runEnd", <<"run", r.id>>, outcome, msg)
    /\ UNCHANGED <<authMode, sourceMode, inputValue, mixLength>>
    /\ UNCHANGED <<resultMix, savedUrl, auths, saves, overlaps>>
    /\ UNCHANGED pipeline

\* What the step of the loop was answered: featData.found of the track before
AnswerOf(answers) ==
    IF answers = <<>> THEN ""
    ELSE IF answers[Len(answers)] THEN "found" ELSE "notFound"

\* The head of the enrichment loop with i tracks done: the progress update and
\* the request for track i, or, past the last track, the code after the loop
\* up to the await of /api/solve.
LoopHead(r, raw, i, processed, answers) ==
    /\ IF i < Len(raw)
       THEN /\ progress' = Percent(i, Len(raw))
            /\ status' = [text |-> "Processing", i |-> i + 1, n |-> Len(raw), name |-> raw[i + 1].name]
            /\ runs' = (runs \ {r}) \cup
                    {[r EXCEPT !.pc = "features", !.rawTracks = raw, !.i = i,
                               !.processed = processed, !.answers = answers,
                               !.lookups = @ + 1]}
            /\ inflight' = (inflight \ Pending(<<"run", r.id>>))
                    \cup {Request(<<"run", r.id>>, "lookupFeatures", [track |-> raw[i + 1]])}
            /\ last' = Event("runStep", <<"run", r.id>>, "lookupFeatures", AnswerOf(answers))
            /\ UNCHANGED tracks
       ELSE /\ tracks' = processed
            /\ status' = [text |-> "Running Solver...", i |-> 0, n |-> 0, name |-> ""]
            /\ progress' = [num |-> FullProgress, den |-> 1]
            /\ runs' = (runs \ {r}) \cup
                    {[r EXCEPT !.pc = "solve", !.rawTracks = raw, !.i = i,
                               !.processed = processed, !.answers = answers,
                               !.solves = @ + 1]}
            /\ inflight' = (inflight \ Pending(<<"run", r.id>>))
                    \cup {Request(<<"run", r.id>>, "solve",
                                  [songs |-> processed, length |-> r.mixLength])}
            /\ last' = Event("runStep", <<"run", r.id>>, "solve", AnswerOf(answers))
    /\ UNCHANGED <<auths, saves, overlaps>>
    /\ UNCHANGED <<session, outputs>>

SourceResponse_RejectsEmpty(r) ==
    /\ r \in runs
    /\ r.pc = "source"
    /\ \/ RunCatch(r, "fault", FaultMsg)
       \/ \E e \in SourceErrors : RunCatch(r, "sourceError", e)
       \/ \E raw \in RawLists :
            IF raw = <<>> THEN RunCatch(r, "empty", "No tracks found")
            ELSE LoopHead(r, raw, 0, <<>>, <<>>)

\* handleFetch resumed by the answer of the source request
SourceResponse(r) ==
    /\ r \in runs
    /\ r.pc = "source"
    /\ \/ RunCatch(r, "fault", FaultMsg)
       \/ \E e \in SourceErrors : RunCatch(r, "sourceError", e)
       \/ \E raw \in RawLists : LoopHead(r, raw, 0, <<>>, <<>>)

Pushed_Always(processed, found, t) == Append(processed, Enriched(t))

\* if (featData.found) { processed.push(featData.track) }
Pushed(processed, found, t) ==
    IF found THEN Append(processed, Enriched(t)) ELSE processed

NextIndex_Stuck(i) == i

\* i++
NextIndex(i) == i + 1

\* handleFetch resumed by the answer of /api/features for track r.i; the run
\* records the answers it got in r.answers
FeaturesResponse(r) ==
    /\ r \in runs
    /\ r.pc = "features"
    /\ \/ RunCatch(r, "fault", FaultMsg)
       \/ \E found \in BOOLEAN :
            LoopHead(r, r.rawTracks, NextIndex(r.i),
                     Pushed(r.processed, found, r.rawTracks[r.i + 1]),
                     Append(r.answers, found))

RECURSIVE SubSeqs(_)
SubSeqs(s) ==
    IF s = <<>> THEN {<<>>}
    ELSE LET rest == SubSeqs(Tail(s))
         IN  rest \cup { <<Head(s)>> \o t : t \in rest }

\* The mixes /api/solve may answer for the songs it was sent.
Mixes(songs) == SubSeqs(songs)

SolverFailedMessage_NoFallback(m) == m

\* solveData.message || "Solver failed"
SolverFailedMessage(m) == IF m # "" THEN m ELSE "Solver failed"

\* handleFetch resumed by the answer of /api/solve
SolveResponse(r) ==
    /\ r \in runs
    /\ r.pc = "solve"
    /\ \/ RunCatch(r, "fault", FaultMsg)
       \/ \E mix \in Mixes(r.processed) :
            /\ resultMix' = mix
            /\ step' = "results"
            /\ runs' = runs \ {r}
            /\ inflight' = inflight \ Pending(<<"run", r.id>>)
            /\ last' = EventWith("runEnd", <<"run", r.id>>, "solved", mix)
            /\ UNCHANGED <<authMode, sourceMode, inputValue, mixLength>>
            /\ UNCHANGED <<savedUrl, error, auths, saves, overlaps>>
            /\ UNCHANGED pipeline
       \/ \E m \in SolveMessages :
            /\ error' = SolverFailedMessage(m)
            /\ step' = "source"
            /\ runs' = runs \ {r}
            /\ inflight' = inflight \ Pending(<<"run", r.id>>)
            /\ last' = Event("runEnd", <<"run", r.id>>, "unsolved", m)
            /\ UNCHANGED <<authMode, sourceMode, inputValue, mixLength>>
            /\ UNCHANGED <<resultMix, savedUrl, auths, saves, overlaps>>
            /\ UNCHANGED pipeline

\* --------------------------------------------------------- results stage
\* The Start Over button: setStep('source')
StartOver ==
    /\ step = "results"
    /\ step' = "source"
    /\ last' = Event("startOver", User, "", "")
    /\ UNCHANGED <<authMode, sourceMode, inputValue, mixLength>>
    /\ UNCHANGED <<pipeline, outputs, handlers>>

RECURSIVE Join(_, _)
Join(lines, sep) ==
    IF lines = <<>> THEN <<>>
    ELSE IF Len(lines) = 1 THEN Head(lines)
    ELSE Head(lines) \o <<sep>> \o Join(Tail(lines), sep)

ExportText_TrailingNewline(mix) ==
    Join([k \in 1..Len(mix) |-> <<mix[k].artist, " - ", mix[k].name>>], "\n")
        \o (IF mix = <<>> THEN <<>> ELSE <<"\n">>)

\* resultMix.map(t => `${t.artist} - ${t.name}`).join('\n'), as the sequence
\* of the pieces the text is made of
ExportText(mix) ==
    Join([k \in 1..Len(mix) |-> <<mix[k].artist, " - ", mix[k].name>>], "\n")

\* handleExport, from the Export mix.txt button
HandleExport ==
    /\ step = "results"
    /\ last' = EventWith("handleExport", User, "", ExportText(resultMix))
    /\ UNCHANGED <<session, pipeline, outputs, handlers>>

SaveOffered_AnyMode == step = "results"

\* The Save to Spotify button is rendered in the results view for authMode 'user'.
SaveOffered == step = "results" /\ authMode = "user"

\* resultMix.map(t => t.uri)
Uris(mix) == [k \in 1..Len(mix) |-> mix[k].uri]

\* The url /api/save answers for the playlist it made of the uris.
PlaylistUrl(uris) == <<"https://open.spotify.com/playlist", uris>>

\* handleSave up to its await of /api/save
HandleSave ==
    /\ SaveOffered
    /\ MayStart
    /\ overlaps' = Started
    /\ saves' = saves \cup {[id |-> NewId(saves)]}
    /\ inflight' = inflight \cup
            {Request(<<"save", NewId(saves)>>, "savePlaylist", [uris |-> Uris(resultMix)])}
    /\ last' = Event("handleSave", User, "", "")
    /\ UNCHANGED <<auths, runs>>
    /\ UNCHANGED <<session, pipeline, outputs>>

SaveAlert_SetsError(s, outcome, msg) ==
    /\ error' = msg
    /\ last' = Event("saveEnd", <<"save", s.id>>, outcome, msg)
    /\ UNCHANGED savedUrl

\* alert("Error: " + data.error) and alert(e.message) of handleSave
SaveAlert(s, outcome, msg) ==
    /\ last' = Event("saveEnd", <<"save", s.id>>, outcome, msg)
    /\ UNCHANGED <<savedUrl, error>>

\* handleSave resumed by the answer of /api/save
SaveResponse(s) ==
    /\ s \in saves
    /\ saves' = saves \ {s}
    /\ inflight' = inflight \ Pending(<<"save", s.id>>)
    /\ UNCHANGED <<auths, runs, overlaps>>
    /\ UNCHANGED <<session, pipeline, resultMix>>
    /\ \/ \E c \in Pending(<<"save", s.id>>) :
            /\ savedUrl' = PlaylistUrl(c.payload.uris)
            /\ last' = EventWith("saveEnd", <<"save", s.id>>, "saved", PlaylistUrl(c.payload.uris))
            /\ UNCHANGED error
       \/ \E e \in SaveErrors : SaveAlert(s, "refused", e)
       \/ SaveAlert(s, "fault", FaultMsg)

Next ==
    \/ \E m \in {"client", "user"} : SetAuthMode(m)
    \/ HandleAuth
    \/ \E h \in auths : AuthUrlResponse(h)
    \/ \E h \in auths : AuthTokenResponse(h)
    \/ \E m \in {"playlist", "recs"} : SetSourceMode(m)
    \/ \E v \in MixLengthInputs : SetMixLength(v)
    \/ HandleFetch
    \/ \E r \in runs : SourceResponse(r)
    \/ \E r \in runs : FeaturesResponse(r)
    \/ \E r \in runs : SolveResponse(r)
    \/ StartOver
    \/ HandleExport
    \/ HandleSave
    \/ \E s \in saves : SaveResponse(s)

Spec == Init /\ [][Next]_vars

\* The names the pending runs of the executions explored can have.
RunIds == 1..(MaxOverlaps + 1)

\* The run named k is resumed by the answer, or the fault, of the request it
\* awaits.
RunAnswered(k) ==
    \E r \in runs :
        /\ r.id = k
        /\ (SourceResponse(r) \/ FeaturesResponse(r) \/ SolveResponse(r))

\* Every request a run awaits is eventually answered or faults: the promise a
\* fetch returns settles, and the event loop then resumes the handler.
FairSpec == Spec /\ \A k \in RunIds : WF_vars(RunAnswered(k))

\* ------------------------------------------------------------ properties
Stages == {"auth", "source", "processing", "results"}

StageEdges ==
    { <<"auth", "source">>, <<"source", "processing">>, <<"processing", "results">>,
      <<"processing", "source">>, <<"results", "source">> }

\* The step being taken is a step of the operation named.
ActedNow(op) == last'.op = op

\* C1: while a handleFetch run is pending (from the submit that set stage
\* Processing to the handling of its solve answer or fault), no step of the
\* user or of another handler changes stage, errorMessage, Mix or progress.
C1_ProcessingNotInterrupted ==
    [][\A r \in runs :
          last'.actor # <<"run", r.id>> => UNCHANGED <<step, error, resultMix, progress>>]_vars

\* C2: in every reachable state at most one Gateway call is in flight.
C2_OneCallInFlight == Cardinality(inflight) <= 1

\* C3: the stage starts as Auth, is always one of the four stages, and changes
\* only along Auth->Source, Source->Processing, Processing->Results,
\* Processing->Source and Results->Source.
C3_StageEdgesOnly ==
    /\ step = "auth"
    /\ [][step' \in Stages /\ (step' # step => <<step, step'>> \in StageEdges)]_vars

\* C4: when a run ends in failure (error answer of the source, a fault of any
\* Gateway call, or solve answering success = false) the stage becomes Source
\* and errorMessage is the failure's message, or a non-empty fallback when the
\* failure carries none.
C4_FailureRevertsToSource ==
    [][(ActedNow("runEnd") /\ last'.outcome # "solved") =>
          /\ step' = "source"
          /\ error' # ""
          /\ (last'.msg # "" => error' = last'.msg)]_vars

\* A run was just refused by the solver with "no feasible mix".
C4_Witness ==
    /\ last.op = "runEnd"
    /\ last.outcome = "unsolved"
    /\ last.msg = "no feasible mix"
    /\ error = "no feasible mix"
    /\ step = "source"

\* C5: Start Over moves the stage to Source and leaves Mix empty,
\* SavedPlaylistRef absent and errorMessage empty.
C5_RestartClears ==
    [][ActedNow("startOver") =>
          /\ step' = "source"
          /\ resultMix' = <<>>
          /\ savedUrl' = NoUrl
          /\ error' = ""]_vars

\* C6: errorMessage is empty right after every Auth submit, every Source
\* submit and every Save.
C6_ErrorClearedByEveryAttempt ==
    [][(ActedNow("handleAuth") \/ ActedNow("handleFetch") \/ ActedNow("handleSave")) =>
          error' = ""]_vars

\* C7: an Auth submit with authMode = Client sets the stage to Source and
\* issues no Gateway call, whatever the rest of the state is.
C7_ClientAuthGoesToSource ==
    [][(ActedNow("handleAuth") /\ authMode = "client") =>
          /\ step' = "source"
          /\ inflight' = inflight]_vars

\* A Client-mode submit took the stage to Source while the request of an
\* earlier User-mode submit was still unanswered.
C7_Witness ==
    /\ last.op = "handleAuth"
    /\ last.outcome = "client"
    /\ step = "source"
    /\ inflight # {}

\* C8, as stated: a User-mode Auth submit ends either with the exchange
\* succeeded and stage = Source, or failed (fault, success = false, or nothing
\* pasted) with stage = Auth and a non-empty errorMessage.
C8_AuthSucceedsOrReportsFailure ==
    [][ActedNow("authEnd") =>
          \/ last'.outcome = "success" /\ step' = "source"
          \/ last'.outcome # "success" /\ step' = "auth" /\ error' # ""]_vars

\* C8, amended: a User-mode Auth submit ends in one of three ways.  The
\* exchange succeeded and the handler sets stage = Source; or a Gateway call
\* faulted or the exchange answered success = false, and the handler leaves the
\* stage as it is and sets a non-empty errorMessage (the failure's message when
\* it has one); or nothing was pasted, and the handler changes neither stage
\* nor errorMessage.  In each case the handler is over and issues no call.
C8_AuthOutcomes ==
    [][ActedNow("authEnd") =>
          /\ \A h \in auths' : <<"auth", h.id>> # last'.actor
          /\ inflight' \subseteq inflight
          /\ \A c \in inflight' : c.actor # last'.actor
          /\ last'.outcome \in {"success", "fault", "refused", "cancelled"}
          /\ (last'.outcome = "success" => step' = "source" /\ error' = error)
          /\ (last'.outcome \in {"fault", "refused"} =>
                /\ step' = step
                /\ error' # ""
                /\ (last'.msg # "" => error' = last'.msg))
          /\ (last'.outcome = "cancelled" => step' = step /\ error' = error)]_vars

\* The prompt was dismissed: the attempt is over, the stage is Auth and no
\* message is shown.
C8_Witness ==
    /\ last.op = "authEnd"
    /\ last.outcome = "cancelled"
    /\ step = "auth"
    /\ error = ""
    /\ auths = {}

\* C9: a savePlaylist call is issued only while stage = Results and
\* authMode = User.
C9_SaveOnlyInUserMode ==
    [][\A c \in inflight' \ inflight :
          c.op = "savePlaylist" => step = "results" /\ authMode = "user"]_vars

\* A save request has just been issued.
C9_Witness ==
    /\ last.op = "handleSave"
    /\ \E c \in inflight : c.op = "savePlaylist"
    /\ step = "results"
    /\ authMode = "user"

\* C10: no step of a save attempt changes stage, Mix or errorMessage; an
\* answer with a url sets SavedPlaylistRef to that url, an error answer or a
\* fault leaves it as it was; and SavedPlaylistRef, absent at first, never
\* changes but to the url a save answered.
C10_SaveIsLocal ==
    /\ savedUrl = NoUrl
    /\ [][/\ (ActedNow("handleSave") \/ ActedNow("saveEnd")) =>
                UNCHANGED <<step, resultMix, error>>
          /\ (ActedNow("saveEnd") /\ last'.outcome = "saved") =>
                savedUrl' = last'.data /\ savedUrl' # NoUrl
          /\ (ActedNow("saveEnd") /\ last'.outcome # "saved") =>
                savedUrl' = savedUrl
          /\ savedUrl' # savedUrl =>
                ActedNow("saveEnd") /\ last'.outcome = "saved"]_vars

\* A save failed after an earlier one had succeeded: the earlier url is kept.
C10_Witness ==
    /\ last.op = "saveEnd"
    /\ last.outcome \in {"refused", "fault"}
    /\ savedUrl # NoUrl
    /\ step = "results"

\* The requests the step being taken issues.
Issued == inflight' \ inflight

\* The tracks of raw whose answer in answers is found, in the order of raw.
RECURSIVE FoundInOrder(_, _)
FoundInOrder(raw, answers) ==
    IF raw = <<>> \/ answers = <<>> THEN <<>>
    ELSE (IF Head(answers) THEN <<Head(raw)>> ELSE <<>>)
         \o FoundInOrder(Tail(raw), Tail(answers))

\* C11: the enriched sequence handed to solve is exactly the found tracks in
\* input order: every raw track was answered, each element is the enriched form
\* of the found track at its place, the sequence is no longer than the raw one;
\* and a not-found answer drops the track, leaves errorMessage as it is and
\* lets the run go on to its next request.
C11_EnrichedIsFoundInOrder ==
    [][/\ \A c \in Issued : c.op = "solve" =>
             \E r \in runs' :
                /\ c.actor = <<"run", r.id>>
                /\ Len(r.answers) = Len(r.rawTracks)
                /\ Len(c.payload.songs) <= Len(r.rawTracks)
                /\ LET found == FoundInOrder(r.rawTracks, r.answers)
                   IN  /\ Len(c.payload.songs) = Len(found)
                       /\ \A k \in 1..Len(found) :
                             /\ c.payload.songs[k].id = found[k].id
                             /\ c.payload.songs[k] = Enriched(found[k])
       /\ (ActedNow("runStep") /\ last'.msg = "notFound") =>
             /\ error' = error
             /\ \E r \in runs, q \in runs' :
                   /\ last'.actor = <<"run", r.id>> /\ q.id = r.id
                   /\ q.processed = r.processed
                   /\ Pending(<<"run", r.id>>)' # {}]_vars

\* A run of two tracks, the first not found and the second found, is awaiting
\* solve for the second track alone.
C11_Witness ==
    \E r \in runs, c \in inflight :
        /\ r.pc = "solve" /\ c.actor = <<"run", r.id>> /\ c.op = "solve"
        /\ r.answers = <<FALSE, TRUE>>
        /\ c.payload.songs = <<Enriched(RawTrack(2))>>
        /\ error = ""

\* p <= q, of progress values
ProgressLeq(p, q) == p.num * q.den <= q.num * p.den

\* C12: within a run, from the submit that set stage Processing to the run's
\* end, no step of the run decreases progress, and the step that completes the
\* enrichment loop leaves progress at exactly 100 (also when an earlier run
\* left it at 100, and when the raw track list is empty).
C12_ProgressMonotoneInRun ==
    [][\A r \in runs :
          last'.actor = <<"run", r.id>> =>
             /\ ProgressLeq(progress, progress')
             /\ (ActedNow("runStep") /\ last'.outcome = "solve") =>
                   progress' = [num |-> FullProgress, den |-> 1]]_vars

\* C13: the step that handles a solve answer with success = true sets stage
\* Results and Mix to exactly the sequence solve returned, and errorMessage is
\* empty.
C13_SolveSuccessShowsMix ==
    [][(ActedNow("runEnd") /\ last'.outcome = "solved") =>
          /\ step' = "results"
          /\ resultMix' = last'.data
          /\ error' = ""]_vars

\* C14: Export hands out one line "<artist> - <name>" per Mix entry, in Mix
\* order, joined by newlines with no trailing newline (for the mix of A's X and
\* B's Y exactly "A - X\nB - Y"); it issues no Gateway call and leaves stage,
\* Mix, SavedPlaylistRef and errorMessage unchanged.
C14_ExportIsLocal ==
    [][ActedNow("handleExport") =>
          LET text == last'.data
              n == Len(resultMix)
          IN  /\ Len(text) = IF n = 0 THEN 0 ELSE 4 * n - 1
              /\ \A k \in 1..n :
                    /\ text[4 * k - 3] = resultMix[k].artist
                    /\ text[4 * k - 2] = " - "
                    /\ text[4 * k - 1] = resultMix[k].name
                    /\ k < n => text[4 * k] = "\n"
              /\ resultMix = <<Enriched(RawTrack(1)), Enriched(RawTrack(2))>> =>
                    text = <<"A", " - ", "X", "\n", "B", " - ", "Y">>
              /\ inflight' = inflight
              /\ UNCHANGED <<step, resultMix, savedUrl, error>>]_vars

\* The mix of A's X and B's Y has just been exported.
C14_Witness ==
    /\ last.op = "handleExport"
    /\ resultMix = <<Enriched(RawTrack(1)), Enriched(RawTrack(2))>>
    /\ last.data = <<"A", " - ", "X", "\n", "B", " - ", "Y">>
    /\ step = "results"

\* C15: a run that has set stage Processing, all of whose requests are
\* eventually answered or fault, eventually ends, leaving stage Results or
\* Source; it issues at most N lookupFeatures requests for N raw tracks and at
\* most one solve request.
C15_RunEndsBounded ==
    /\ [](\A r \in runs :
            /\ r.lookups <= Len(r.rawTracks)
            /\ r.solves <= 1
            /\ Cardinality(Pending(<<"run", r.id>>)) = 1)
    /\ \A k \in RunIds :
          (\E r \in runs : r.id = k) ~>
              (/\ last.op = "runEnd" /\ last.actor = <<"run", k>>
               /\ \A r \in runs : r.id # k
               /\ step \in {"results", "source"})

\* A run over the longest track list has issued a request for each track and
\* its one solve request.
C15_Witness ==
    \E r \in runs :
        /\ r.pc = "solve" /\ Len(r.rawTracks) = MaxTracks
        /\ r.lookups = MaxTracks /\ r.solves = 1
        /\ step = "processing"

\* C16: in a run over N raw tracks the lookupFeatures requests are issued one
\* at a time in input order, one per track: the request for the i-th track
\* (counting from 0) is issued when exactly the i tracks before it have been
\* answered, by the step that has set progress to i of N and the status to the
\* track's name; solve is issued only when all N tracks have been answered.
C16_LookupsInOrder ==
    [][\A c \in Issued :
          /\ c.op = "lookupFeatures" =>
                \E r \in runs' :
                   LET i == Len(r.answers)
                       N == Len(r.rawTracks)
                   IN  /\ c.actor = <<"run", r.id>>
                       /\ i < N
                       /\ c.payload.track = r.rawTracks[i + 1]
                       /\ r.lookups = i + 1
                       /\ Pending(<<"run", r.id>>)' = {c}
                       /\ progress'.num * N = i * 100 * progress'.den
                       /\ status'.text = "Processing"
                       /\ status'.i = i + 1 /\ status'.n = N
                       /\ status'.name = c.payload.track.name
          /\ c.op = "solve" =>
                \E r \in runs' :
                   /\ c.actor = <<"run", r.id>>
                   /\ Len(r.answers) = Len(r.rawTracks)
                   /\ r.lookups = Len(r.rawTracks)
                   /\ Pending(<<"run", r.id>>)' = {c}]_vars

\* The second of two tracks is being looked up: the first has been answered
\* and progress stands at one of two.
C16_Witness ==
    \E r \in runs, c \in inflight :
        /\ c.actor = <<"run", r.id>> /\ c.op = "lookupFeatures"
        /\ Len(r.rawTracks) = 2 /\ Len(r.answers) = 1
        /\ c.payload.track = RawTrack(2)
        /\ progress = [num |-> 50, den |-> 1]
        /\ status.i = 2 /\ status.name = NameOf(2)

\* C17: a fault of the lookupFeatures request for a track aborts the run: the
\* run issues no request after it (no lookupFeatures for a later track, no
\* solve), the enriched tracks it had accumulated are not stored (tracks is
\* left as it was), Mix is not replaced, and the stage becomes Source.
C17_LookupFaultAborts ==
    [][\A r \in runs :
          (/\ r.pc = "features"
           /\ ActedNow("runEnd") /\ last'.actor = <<"run", r.id>>) =>
             /\ last'.outcome = "fault"
             /\ \A q \in runs' : q.id # r.id
             /\ Pending(<<"run", r.id>>)' = {}
             /\ tracks' = tracks
             /\ resultMix' = resultMix
             /\ step' = "source"
             /\ error' # ""]_vars

\* The lookup of the second of two tracks has faulted in the first run of the
\* session: nothing was stored and the stage is Source.
C17_Witness ==
    /\ last.op = "runEnd" /\ last.outcome = "fault"
    /\ status.text = "Processing" /\ status.i = 2
    /\ tracks = <<>> /\ resultMix = <<>>
    /\ runs = {} /\ inflight = {}
    /\ step = "source"

\* C18: a run whose enriched sequence is empty (the source answered no track,
\* or no track was found) still issues its one solve request, with the empty
\* sequence and the targetMinutes the run was submitted with; before the solve
\* answer only a fault or an error answer of the source ends a run, and the
\* stage after a solve answer is the one that answer decides.
C18_EmptyStillSolved ==
    [][/\ \A q \in runs' \ runs : ActedNow("handleFetch") => q.mixLength = mixLength
       /\ \A r \in runs :
             last'.actor = <<"run", r.id>> =>
                /\ (ActedNow("runEnd") /\ r.pc # "solve") =>
                      last'.outcome \in {"fault", "sourceError"}
                /\ ActedNow("runStep") =>
                      /\ step' = step
                      /\ \A q \in runs' :
                            (/\ q.id = r.id
                             /\ Len(q.answers) = Len(q.rawTracks)
                             /\ \A k \in 1..Len(q.answers) : ~q.answers[k]) =>
                                /\ q.solves = 1
                                /\ \E c \in Issued :
                                      /\ c.actor = <<"run", r.id>> /\ c.op = "solve"
                                      /\ c.payload.songs = <<>>
                                      /\ c.payload.length = r.mixLength
                /\ (ActedNow("runEnd") /\ r.pc = "solve" /\ r.processed = <<>>) =>
                      /\ last'.outcome = "solved" => step' = "results"
                      /\ last'.outcome \in {"unsolved", "fault"} => step' = "source"]_vars

\* A run submitted with the length typed as 30, none of whose two tracks was
\* found, is awaiting solve for the empty sequence.
C18_Witness ==
    \E r \in runs, c \in inflight :
        /\ r.pc = "solve" /\ r.answers = <<FALSE, FALSE>>
        /\ c.actor = <<"run", r.id>> /\ c.op = "solve"
        /\ c.payload.songs = <<>>
        /\ c.payload.length = [kind |-> "string", v |-> "30"]

\* C19: whenever the stage is Results and a saved playlist url is present, it
\* is the url a save of the Mix now held was answered with: a url got by
\* saving an earlier Mix is never shown for the Mix of a later run.
C19_SavedUrlIsOfCurrentMix ==
    (step = "results" /\ savedUrl # NoUrl) => savedUrl = PlaylistUrl(Uris(resultMix))

====
